---- MODULE Spec2Model ----
(***************************************************************************)
(* Model of main.py: the /notification and /webhook request handlers, the  *)
(* single-slot cache last_purchase, the ledger (write_to_sheets) and the   *)
(* outbound messages (send_telegram_message).                              *)
(*                                                                         *)
(* Text is modelled by TLA+ strings, read with Len, SubSeq and \o.  A      *)
(* backquote cannot be written inside a TLA+ string, so the tilde stands   *)
(* for it: Fence is the code's three-backquote marker.  No other modelled  *)
(* text contains a tilde.                                                  *)
(*                                                                         *)
(* Python values are tagged records: [num |-> n], [str |-> s],             *)
(* [bool |-> b], [null |-> TRUE], [arr |-> <<..>>] and [obj |-> d], d a    *)
(* function from key strings to values (a dict).                           *)
(***************************************************************************)
EXTENDS Integers, Sequences, FiniteSets, Bags, TLC

VARIABLES
    last_purchase,  \* the module-level dict of line 28
    ledger,         \* the rows of the sheet, in the order write_to_sheets appended them
    outbox,         \* the bag of messages posted to the Telegram API
    req,            \* the bag of requests in flight (handlers suspended at an await)
    arrived,        \* how many requests have arrived
    last,           \* the last step: the handler before and after it, and the model's answer
    hist,           \* the extraction results that qualified, in the order they returned
    response,       \* extract_transaction_info alone: response.choices[0].message.content
    json_content,   \* the payload it handed to json.loads
    parsed          \* the value it returned

vars == <<last_purchase, ledger, outbox, req, arrived, last, hist,
          response, json_content, parsed>>

----------------------------------------------------------------------------
(* str methods used by the code *)

Char(s, i) == SubSeq(s, i, i)

Whitespace == {" ", "\t", "\n", "\r", "\f"}

RECURSIVE LStrip(_)
LStrip(s) ==
    IF Len(s) > 0 /\ Char(s, 1) \in Whitespace
    THEN LStrip(SubSeq(s, 2, Len(s)))
    ELSE s

RECURSIVE RStrip(_)
RStrip(s) ==
    IF Len(s) > 0 /\ Char(s, Len(s)) \in Whitespace
    THEN RStrip(SubSeq(s, 1, Len(s) - 1))
    ELSE s

Strip(s) == RStrip(LStrip(s))

StartsWith(s, p) == Len(s) >= Len(p) /\ SubSeq(s, 1, Len(p)) = p

EndsWith(s, p) == Len(s) >= Len(p) /\ SubSeq(s, Len(s) - Len(p) + 1, Len(s)) = p

\* str.find / str.rfind of a single character, as 1-based positions; 0 when
\* absent (Python: 0-based, -1 when absent).
Find(s, c) ==
    LET hits == {i \in 1..Len(s) : Char(s, i) = c}
    IN  IF hits = {} THEN 0 ELSE CHOOSE i \in hits : \A j \in hits : i <= j

RFind(s, c) ==
    LET hits == {i \in 1..Len(s) : Char(s, i) = c}
    IN  IF hits = {} THEN 0 ELSE CHOOSE i \in hits : \A j \in hits : i >= j

\* s[a:b] for 0-based Python indices; a negative index counts from the end
PySlice(s, a, b) ==
    LET n  == Len(s)
        lo == IF a < 0 THEN (IF n + a < 0 THEN 0 ELSE n + a) ELSE (IF a > n THEN n ELSE a)
        hi == IF b < 0 THEN (IF n + b < 0 THEN 0 ELSE n + b) ELSE (IF b > n THEN n ELSE b)
    IN  IF hi <= lo THEN "" ELSE SubSeq(s, lo + 1, hi)

\* str.split('\n')
RECURSIVE SplitLines(_)
SplitLines(s) ==
    LET k == Find(s, "\n")
    IN  IF k = 0 THEN <<s>>
        ELSE <<SubSeq(s, 1, k - 1)>> \o SplitLines(SubSeq(s, k + 1, Len(s)))

\* '\n'.join(lines)
RECURSIVE JoinLines(_)
JoinLines(lines) ==
    IF Len(lines) = 0 THEN ""
    ELSE IF Len(lines) = 1 THEN lines[1]
    ELSE lines[1] \o "\n" \o JoinLines(Tail(lines))

----------------------------------------------------------------------------
(* json.loads, for the JSON texts of this model: objects, arrays, strings  *)
(* with the escapes \" \\ \/ \n \t \r, integers, true, false, null.        *)
(* A parse returns [ok |-> TRUE, val |-> v, pos |-> next index] or         *)
(* [ok |-> FALSE] (json.JSONDecodeError).                                  *)

JsonWs == {" ", "\t", "\n", "\r"}

Digits == {"0", "1", "2", "3", "4", "5", "6", "7", "8", "9"}

DigitVal(c) ==
    CASE c = "0" -> 0 [] c = "1" -> 1 [] c = "2" -> 2 [] c = "3" -> 3
      [] c = "4" -> 4 [] c = "5" -> 5 [] c = "6" -> 6 [] c = "7" -> 7
      [] c = "8" -> 8 [] c = "9" -> 9

JsonFail == [ok |-> FALSE]

RECURSIVE SkipWs(_, _)
SkipWs(s, i) ==
    IF i <= Len(s) /\ Char(s, i) \in JsonWs THEN SkipWs(s, i + 1) ELSE i

\* the characters of a string literal from position i (after the opening
\* quote) to its closing quote
RECURSIVE ScanString(_, _, _)
ScanString(s, i, acc) ==
    IF i > Len(s) THEN JsonFail
    ELSE LET c == Char(s, i) IN
         IF c = "\"" THEN [ok |-> TRUE, val |-> [str |-> acc], pos |-> i + 1]
         ELSE IF c \in {"\n", "\t", "\r", "\f"} THEN JsonFail
         ELSE IF c = "\\" THEN
              IF i + 1 > Len(s) THEN JsonFail
              ELSE LET e == Char(s, i + 1) IN
                   IF e \in {"\"", "\\", "/"} THEN ScanString(s, i + 2, acc \o e)
                   ELSE IF e = "n" THEN ScanString(s, i + 2, acc \o "\n")
                   ELSE IF e = "t" THEN ScanString(s, i + 2, acc \o "\t")
                   ELSE IF e = "r" THEN ScanString(s, i + 2, acc \o "\r")
                   ELSE JsonFail
         ELSE ScanString(s, i + 1, acc \o c)

RECURSIVE ScanDigits(_, _, _)
ScanDigits(s, i, acc) ==
    IF i <= Len(s) /\ Char(s, i) \in Digits
    THEN ScanDigits(s, i + 1, 10 * acc + DigitVal(Char(s, i)))
    ELSE [ok |-> TRUE, val |-> [num |-> acc], pos |-> i]

\* an integer: -? (0 | [1-9][0-9]*), not followed by a fraction or exponent
ScanNumber(s, i) ==
    LET neg == Char(s, i) = "-"
        j   == IF neg THEN i + 1 ELSE i
    IN  IF j > Len(s) \/ Char(s, j) \notin Digits THEN JsonFail
        ELSE LET r == IF Char(s, j) = "0"
                      THEN [ok |-> TRUE, val |-> [num |-> 0], pos |-> j + 1]
                      ELSE ScanDigits(s, j, 0)
             IN  IF r.pos <= Len(s) /\ Char(s, r.pos) \in {".", "e", "E"} THEN JsonFail
                 ELSE IF neg THEN [r EXCEPT !.val = [num |-> 0 - r.val.num]]
                 ELSE r

Literal(s, i, word, v) ==
    IF i + Len(word) - 1 <= Len(s) /\ SubSeq(s, i, i + Len(word) - 1) = word
    THEN [ok |-> TRUE, val |-> v, pos |-> i + Len(word)]
    ELSE JsonFail

DictSet(d, k, v) == [x \in DOMAIN d \cup {k} |-> IF x = k THEN v ELSE d[x]]

RECURSIVE ParseValue(_, _)
RECURSIVE ParseMembers(_, _, _)
RECURSIVE ParseElements(_, _, _)

\* the value starting at position i (leading whitespace already skipped)
ParseValue(s, i) ==
    IF i > Len(s) THEN JsonFail
    ELSE LET c == Char(s, i) IN
         IF c = "{" THEN
              LET j == SkipWs(s, i + 1) IN
              IF j <= Len(s) /\ Char(s, j) = "}"
              THEN [ok |-> TRUE, val |-> [obj |-> <<>>], pos |-> j + 1]
              ELSE ParseMembers(s, j, <<>>)
         ELSE IF c = "[" THEN
              LET j == SkipWs(s, i + 1) IN
              IF j <= Len(s) /\ Char(s, j) = "]"
              THEN [ok |-> TRUE, val |-> [arr |-> <<>>], pos |-> j + 1]
              ELSE ParseElements(s, j, <<>>)
         ELSE IF c = "\"" THEN ScanString(s, i + 1, "")
         ELSE IF c = "t" THEN Literal(s, i, "true", [bool |-> TRUE])
         ELSE IF c = "f" THEN Literal(s, i, "false", [bool |-> FALSE])
         ELSE IF c = "n" THEN Literal(s, i, "null", [null |-> TRUE])
         ELSE IF c = "-" \/ c \in Digits THEN ScanNumber(s, i)
         ELSE JsonFail

\* "key" : value ( , "key" : value )* } from position i; a later duplicate
\* key replaces the earlier one
ParseMembers(s, i, d) ==
    IF i > Len(s) \/ Char(s, i) # "\"" THEN JsonFail
    ELSE LET k == ScanString(s, i + 1, "") IN
         IF ~k.ok THEN JsonFail
         ELSE LET j == SkipWs(s, k.pos) IN
              IF j > Len(s) \/ Char(s, j) # ":" THEN JsonFail
              ELSE LET v == ParseValue(s, SkipWs(s, j + 1)) IN
                   IF ~v.ok THEN JsonFail
                   ELSE LET m  == SkipWs(s, v.pos)
                            d2 == DictSet(d, k.val.str, v.val)
                        IN  IF m > Len(s) THEN JsonFail
                            ELSE IF Char(s, m) = "}"
                                 THEN [ok |-> TRUE, val |-> [obj |-> d2], pos |-> m + 1]
                            ELSE IF Char(s, m) = ","
                                 THEN ParseMembers(s, SkipWs(s, m + 1), d2)
                            ELSE JsonFail

ParseElements(s, i, a) ==
    LET v == ParseValue(s, i) IN
    IF ~v.ok THEN JsonFail
    ELSE LET m  == SkipWs(s, v.pos)
             a2 == Append(a, v.val)
         IN  IF m > Len(s) THEN JsonFail
             ELSE IF Char(s, m) = "]"
                  THEN [ok |-> TRUE, val |-> [arr |-> a2], pos |-> m + 1]
             ELSE IF Char(s, m) = ","
                  THEN ParseElements(s, SkipWs(s, m + 1), a2)
             ELSE JsonFail

\* json.loads(s): one value with only whitespace around it
JsonLoads(s) ==
    LET v == ParseValue(s, SkipWs(s, 1)) IN
    IF ~v.ok THEN JsonFail
    ELSE IF SkipWs(s, v.pos) <= Len(s) THEN JsonFail
    ELSE [ok |-> TRUE, val |-> v.val]

----------------------------------------------------------------------------
(* Python's view of values *)

IsDict(v) == "obj" \in DOMAIN v

\* bool(v), as the if statements of the handlers apply it
Truthy(v) ==
    CASE "bool" \in DOMAIN v -> v.bool
      [] "num"  \in DOMAIN v -> v.num # 0
      [] "str"  \in DOMAIN v -> v.str # ""
      [] "null" \in DOMAIN v -> FALSE
      [] "arr"  \in DOMAIN v -> v.arr # <<>>
      [] "obj"  \in DOMAIN v -> DOMAIN v.obj # {}

None == [null |-> TRUE]

\* d.get(k, default) on a dict
DictGet(d, k, default) == IF k \in DOMAIN d THEN d[k] ELSE default

\* str(v), as an f-string formats a scalar
PyStr(v) ==
    CASE "str"  \in DOMAIN v -> v.str
      [] "num"  \in DOMAIN v -> ToString(v.num)
      [] "bool" \in DOMAIN v -> IF v.bool THEN "True" ELSE "False"
      [] "null" \in DOMAIN v -> "None"

----------------------------------------------------------------------------
(* categorize_purchase *)

categories ==
    {"Groceries", "Transportation", "Eating Out", "Bills", "Entertainment",
     "Health", "Personal Care", "Education", "Clothing",
     "Travel", "Gifts", "Subscriptions", "Other"}

CategorizeResultUnchecked(answer) == Strip(answer)

\* lines 72-77: the value returned for the text the model answered
CategorizeResult(answer) ==
    LET category == Strip(answer)
    IN  IF category \notin categories THEN "Other" ELSE category

----------------------------------------------------------------------------
(* extract_transaction_info *)

Fence == "~~~"

FenceJson == Fence \o "json"

UnwrapOffByOne(content) ==
    IF StartsWith(content, FenceJson) /\ EndsWith(content, Fence) THEN
        LET json_start == Find(content, "{") - 1
            json_end   == RFind(content, "}") - 1
        IN  PySlice(content, json_start, json_end)
    ELSE IF StartsWith(content, Fence) /\ EndsWith(content, Fence) THEN
        LET lines == SplitLines(content)
        IN  JoinLines(SubSeq(lines, 2, Len(lines) - 1))
    ELSE content

\* lines 122-133: the payload handed to json.loads
Unwrap(content) ==
    IF StartsWith(content, FenceJson) /\ EndsWith(content, Fence) THEN
        LET json_start == Find(content, "{") - 1
            json_end   == (RFind(content, "}") - 1) + 1
        IN  PySlice(content, json_start, json_end)
    ELSE IF StartsWith(content, Fence) /\ EndsWith(content, Fence) THEN
        LET lines == SplitLines(content)
        IN  JoinLines(SubSeq(lines, 2, Len(lines) - 1))
    ELSE content

NotCreditCard == [obj |-> [is_credit_card |-> [bool |-> FALSE]]]

\* lines 118-141: the value returned for the message content the model
\* answered (a string, or None)
ExtractResult(content) ==
    IF "str" \notin DOMAIN content THEN NotCreditCard
    ELSE LET loaded == JsonLoads(Unwrap(Strip(content.str)))
         IN  IF loaded.ok THEN loaded.val ELSE NotCreditCard

----------------------------------------------------------------------------
(* Bounds and inputs *)

\* requests the server receives in one behaviour
MaxReq == 3

\* a request body that is not JSON (req.json() raises)
BadBody == [invalid |-> TRUE]

Str(x) == [str |-> x]

Num(n) == [num |-> n]

NotificationBodies ==
    { BadBody,
      [arr |-> <<>>],
      [obj |-> <<>>],
      [obj |-> [notification |-> Str("Se realizo una compra por 2,349 con su Tarjeta de Credito en Falabella")]] }

WebhookBodies ==
    { BadBody,
      [obj |-> <<>>],
      [obj |-> [message |-> [obj |-> [chat |-> [obj |-> [id |-> Num(42)]], text |-> Str("")]]]],
      [obj |-> [message |-> [obj |-> [chat |-> [obj |-> [id |-> Num(42)]], text |-> Str("lunch with friends")]]]],
      [obj |-> [message |-> [obj |-> [chat |-> [obj |-> [id |-> Num(77)]], text |-> Str("taxi")]]]] }

\* message contents the language model may answer to the extraction prompt
\* (None: a response without text)
ExtractionContents ==
    { Str("{\"is_credit_card\": true, \"amount\": 2349, \"currency\": \"CLP\", \"raw_description\": \"Falabella\"}"),
      Str("~~~json\n{\"is_credit_card\": true, \"amount\": 15, \"currency\": \"USD\", \"raw_description\": \"Uber\"}\n~~~"),
      Str("~~~\n{\"is_credit_card\": false}\n~~~"),
      Str("This notification is not a purchase."),
      Str("{\"is_credit_card\": true, \"amount\": 500}"),
      Str("[]"),
      None }

\* message contents the language model may answer to the classification prompt
CategoryContents ==
    { Str("Eating Out"), Str(" Eating Out\n"), Str("eating out"),
      Str("Category: Eating Out"), Str(""), None }

\* the two functions tabulated over the contents above (evaluated once)
ExtractTable == [content \in ExtractionContents |-> ExtractResult(content)]

CategorizeTable ==
    [content \in {c \in CategoryContents : "str" \in DOMAIN c} |-> CategorizeResult(content.str)]

\* TELEGRAM_CHAT_ID of the environment
CHAT_ID == "1001"

----------------------------------------------------------------------------
(* State *)

\* A request in flight: kind and pc say where its handler stands, the other
\* fields are the handler's locals; content is what the model answered.
\* When the handler ends, result is the HTTP outcome ("ok" for {"ok": True},
\* "error" for an exception that left the handler, exc naming it), the record
\* leaves req and is last for one step.  wrote is the dict the request
\* stored in last_purchase, row the row it appended, msg the message it
\* posted.  While the handler waits for the extraction, nth says that its
\* request was the nth to arrive; while it waits for the classification, seen
\* says how many times last_purchase had been written when its request
\* arrived.
NoRequest ==
    [kind |-> "none", pc |-> "idle", result |-> "", exc |-> "",
     text |-> None, chat_id |-> "", txn_info |-> None,
     wrote |-> <<>>, category |-> "", row |-> <<>>, msg |-> <<>>,
     nth |-> 0, seen |-> 0]

\* a step in which the model answered nothing
NoContent == [none |-> TRUE]

Running == BagToSet(req)

\* the server after start-up
AtStart ==
    /\ last_purchase = <<>>
    /\ ledger = <<>>
    /\ outbox = EmptyBag
    /\ req = EmptyBag
    /\ arrived = 0
    /\ last = [was |-> NoRequest, rq |-> NoRequest, content |-> NoContent]
    /\ hist = <<>>

Init ==
    /\ AtStart
    /\ response = NoContent
    /\ json_content = NoContent
    /\ parsed = NoContent

Arrived(kind) == [NoRequest EXCEPT !.kind = kind]

Return(rq) == [rq EXCEPT !.pc = "done", !.result = "ok"]

Raise(rq, e) == [rq EXCEPT !.pc = "done", !.result = "error", !.exc = e]

\* the handler that stood at old (NoRequest: a request that arrives) stands
\* at new after the step; content is what the model answered in the step
StepWith(old, new, content) ==
    LET others == IF old = NoRequest THEN req ELSE req (-) SetToBag({old}) IN
    /\ req' = IF new.pc = "done" THEN others ELSE others (+) SetToBag({new})
    /\ last' = [was |-> old, rq |-> new, content |-> content]
    /\ UNCHANGED <<response, json_content, parsed>>

Step(old, new) == StepWith(old, new, NoContent)

----------------------------------------------------------------------------
(* send_telegram_message, lines 39-44 *)

Message(chat_id, text) == [chat_id |-> chat_id, text |-> text]

Post(m) == outbox' = outbox (+) SetToBag({m})

----------------------------------------------------------------------------
(* handle_notification, lines 154-179 *)

ConfirmationText(amount, currency, raw_description) ==
    "You spent " \o PyStr(amount) \o " " \o PyStr(currency) \o " at '"
        \o PyStr(raw_description) \o "'. What was it?"

\* lines 157-162: the body is read and the extraction prompt is sent
\* (notification_text is read only to build the prompt)
NotificationBegin(body) ==
    /\ arrived < MaxReq
    /\ arrived' = arrived + 1
    /\ LET rq == Arrived("notification") IN
       Step(NoRequest,
            IF body = BadBody THEN Raise(rq, "JSONDecodeError")
            ELSE IF ~IsDict(body) THEN Raise(rq, "AttributeError")
            ELSE [rq EXCEPT !.pc = "extract", !.nth = arrived + 1])
    /\ UNCHANGED <<last_purchase, ledger, outbox, hist>>

\* line 107: the model call raises
NotificationExtractRaise(rq) ==
    /\ rq.kind = "notification" /\ rq.pc = "extract"
    /\ Step(rq, Raise(rq, "APIError"))
    /\ UNCHANGED <<last_purchase, ledger, outbox, arrived, hist>>

IsCreditCardPresent(txn_info) == "is_credit_card" \in DOMAIN txn_info.obj

\* line 166
IsCreditCard(txn_info) == Truthy(DictGet(txn_info.obj, "is_credit_card", None))

\* lines 167-169: the subscripts raise KeyError on a missing key
HasFields(d) == {"amount", "currency", "raw_description"} \subseteq DOMAIN d

PendingTransactionPartial(amount, currency, raw_description) ==
    [amount |-> amount, currency |-> currency]

\* lines 171-175
PendingTransaction(amount, currency, raw_description) ==
    [amount |-> amount, currency |-> currency, raw_description |-> raw_description]

SetLastPurchasePartial(txn) ==
    last_purchase' = IF last_purchase = <<>> THEN txn
                     ELSE [last_purchase EXCEPT !["amount"] = txn["amount"]]

SetLastPurchaseIfEmpty(txn) ==
    last_purchase' = IF last_purchase = <<>> THEN txn ELSE last_purchase

\* lines 156, 171: the global is rebound
SetLastPurchase(txn) == last_purchase' = txn

\* lines 116-177: the model answered content; up to the await of the send
NotificationExtractReturn(rq, content) ==
    /\ rq.kind = "notification" /\ rq.pc = "extract"
    /\ LET txn_info == ExtractTable[content]
           rq2      == [rq EXCEPT !.txn_info = txn_info, !.nth = 0]
       IN  IF ~IsDict(txn_info) THEN
               /\ StepWith(rq, Raise(rq2, "AttributeError"), content)
               /\ UNCHANGED <<last_purchase, hist>>
           ELSE IF ~IsCreditCard(txn_info) THEN
               /\ StepWith(rq, Return(rq2), content)
               /\ UNCHANGED <<last_purchase, hist>>
           ELSE IF ~HasFields(txn_info.obj) THEN
               /\ StepWith(rq, Raise(rq2, "KeyError"), content)
               /\ UNCHANGED <<last_purchase, hist>>
           ELSE
               LET txn == PendingTransaction(txn_info.obj["amount"],
                              txn_info.obj["currency"], txn_info.obj["raw_description"])
               IN  /\ SetLastPurchase(txn)
                   /\ StepWith(rq, [rq2 EXCEPT !.pc = "send", !.wrote = txn], content)
                   /\ hist' = Append(hist, txn_info)
    /\ UNCHANGED <<ledger, outbox, arrived>>

NotificationSendFromStore(rq) ==
    /\ rq.kind = "notification" /\ rq.pc = "send"
    /\ LET m == Message(CHAT_ID,
                    ConfirmationText(last_purchase["amount"], last_purchase["currency"],
                                     last_purchase["raw_description"]))
       IN  /\ Post(m)
           /\ Step(rq, Return([rq EXCEPT !.msg = m]))
    /\ UNCHANGED <<last_purchase, ledger, arrived, hist>>

\* line 177 then 179: the message is posted
NotificationSend(rq) ==
    /\ rq.kind = "notification" /\ rq.pc = "send"
    /\ LET m == Message(CHAT_ID,
                    ConfirmationText(rq.txn_info.obj["amount"], rq.txn_info.obj["currency"],
                                     rq.txn_info.obj["raw_description"]))
       IN  /\ Post(m)
           /\ Step(rq, Return([rq EXCEPT !.msg = m]))
    /\ UNCHANGED <<last_purchase, ledger, arrived, hist>>

NotificationSendRaiseRollback(rq) ==
    /\ rq.kind = "notification" /\ rq.pc = "send"
    /\ Step(rq, Raise(rq, "HTTPError"))
    /\ last_purchase' = <<>>
    /\ UNCHANGED <<ledger, outbox, arrived, hist>>

\* line 177: the post raises
NotificationSendRaise(rq) ==
    /\ rq.kind = "notification" /\ rq.pc = "send"
    /\ Step(rq, Raise(rq, "HTTPError"))
    /\ UNCHANGED <<last_purchase, ledger, outbox, arrived, hist>>

----------------------------------------------------------------------------
(* telegram_webhook, lines 182-206 *)

AckTextOther(category) == "Got it. Categorized as: Other"

\* line 204
AckText(category) == "Got it. Categorized as: " \o category

EmptyTextOnlyAbsent(text) == FALSE

\* line 189
EmptyText(text) == ~Truthy(text)

\* lines 184-192: the body is read; an empty text returns at once, else the
\* classification prompt is sent
WebhookBegin(body) ==
    /\ arrived < MaxReq
    /\ arrived' = arrived + 1
    /\ LET rq      == Arrived("webhook")
           message == DictGet(body.obj, "message", [obj |-> <<>>])
           chat    == DictGet(message.obj, "chat", [obj |-> <<>>])
           chat_id == PyStr(DictGet(chat.obj, "id", None))
           text    == DictGet(message.obj, "text", Str(""))
       IN  Step(NoRequest,
                IF body = BadBody THEN Raise(rq, "JSONDecodeError")
                ELSE IF ~IsDict(body) \/ ~IsDict(message) \/ ~IsDict(chat)
                     THEN Raise(rq, "AttributeError")
                ELSE IF EmptyText(text)
                     THEN Return([rq EXCEPT !.chat_id = chat_id, !.text = text])
                ELSE [rq EXCEPT !.pc = "categorize", !.chat_id = chat_id, !.text = text,
                                !.seen = Len(hist)])
    /\ UNCHANGED <<last_purchase, ledger, outbox, hist>>

\* line 63: the model call raises
WebhookCategorizeRaise(rq) ==
    /\ rq.kind = "webhook" /\ rq.pc = "categorize"
    /\ Step(rq, Raise(rq, "APIError"))
    /\ UNCHANGED <<last_purchase, ledger, outbox, arrived, hist>>

RowSwapped(text, category) ==
    <<last_purchase["amount"], last_purchase["currency"],
      last_purchase["raw_description"], Str(category), text>>

\* lines 196-202: the list handed to write_to_sheets
Row(text, category) ==
    <<last_purchase["amount"], last_purchase["currency"],
      last_purchase["raw_description"], text, Str(category)>>

\* lines 143-151: the row is appended to the sheet
write_to_sheets(row) == ledger' = Append(ledger, row)

\* lines 72-204: the model answered content; up to the await of the send.
\* sheets_ok: whether write_to_sheets appended or raised.
WebhookCategorizeReturn(rq, content, sheets_ok) ==
    /\ rq.kind = "webhook" /\ rq.pc = "categorize"
    /\ IF "str" \notin DOMAIN content THEN
           /\ StepWith(rq, Raise(rq, "AttributeError"), content)
           /\ UNCHANGED ledger
       ELSE LET category == CategorizeTable[content]
                rq2      == [rq EXCEPT !.category = category, !.seen = 0]
            IN  IF ~HasFields(last_purchase) THEN
                    /\ StepWith(rq, Raise(rq2, "KeyError"), content)
                    /\ UNCHANGED ledger
                ELSE IF ~sheets_ok THEN
                    /\ StepWith(rq, Raise(rq2, "SheetsError"), content)
                    /\ UNCHANGED ledger
                ELSE
                    /\ write_to_sheets(Row(rq.text, category))
                    /\ StepWith(rq, [rq2 EXCEPT !.pc = "ack", !.row = Row(rq.text, category)], content)
    /\ UNCHANGED <<last_purchase, outbox, arrived, hist>>

WebhookAckToDefault(rq) ==
    /\ rq.kind = "webhook" /\ rq.pc = "ack"
    /\ LET m == Message(CHAT_ID, AckText(rq.category))
       IN  /\ Post(m)
           /\ Step(rq, Return([rq EXCEPT !.msg = m]))
    /\ UNCHANGED <<last_purchase, ledger, arrived, hist>>

WebhookAckBeforeAppend(rq) ==
    /\ rq.kind = "webhook" /\ rq.pc \in {"categorize", "ack"}
    /\ LET m == Message(rq.chat_id, AckText(rq.category))
       IN  /\ Post(m)
           /\ Step(rq, Return([rq EXCEPT !.msg = m]))
    /\ UNCHANGED <<last_purchase, ledger, arrived, hist>>

WebhookAckClearing(rq) ==
    /\ rq.kind = "webhook" /\ rq.pc = "ack"
    /\ LET m == Message(rq.chat_id, AckText(rq.category))
       IN  /\ Post(m)
           /\ Step(rq, Return([rq EXCEPT !.msg = m]))
    /\ last_purchase' = <<>>
    /\ UNCHANGED <<ledger, arrived, hist>>

\* line 204 then 206: the message is posted
WebhookAck(rq) ==
    /\ rq.kind = "webhook" /\ rq.pc = "ack"
    /\ LET m == Message(rq.chat_id, AckText(rq.category))
       IN  /\ Post(m)
           /\ Step(rq, Return([rq EXCEPT !.msg = m]))
    /\ UNCHANGED <<last_purchase, ledger, arrived, hist>>

\* line 204: the post raises
WebhookAckRaise(rq) ==
    /\ rq.kind = "webhook" /\ rq.pc = "ack"
    /\ Step(rq, Raise(rq, "HTTPError"))
    /\ UNCHANGED <<last_purchase, ledger, outbox, arrived, hist>>

----------------------------------------------------------------------------
(* The server: requests are handled concurrently on one event loop; a step *)
(* is what one handler does between two awaits.                            *)

Next ==
    \/ \E body \in NotificationBodies : NotificationBegin(body)
    \/ \E rq \in Running : NotificationExtractRaise(rq)
    \/ \E rq \in Running, content \in ExtractionContents : NotificationExtractReturn(rq, content)
    \/ \E rq \in Running : NotificationSend(rq)
    \/ \E rq \in Running : NotificationSendRaise(rq)
    \/ \E body \in WebhookBodies : WebhookBegin(body)
    \/ \E rq \in Running : WebhookCategorizeRaise(rq)
    \/ \E rq \in Running, content \in CategoryContents, sheets_ok \in BOOLEAN :
           WebhookCategorizeReturn(rq, content, sheets_ok)
    \/ \E rq \in Running : WebhookAck(rq)
    \/ \E rq \in Running : WebhookAckRaise(rq)

Spec == Init /\ [][Next]_vars

\* The same server when the requests come one at a time: a request arrives
\* only when no handler is in flight.
Idle == req = EmptyBag

NextSeq ==
    \/ \E body \in NotificationBodies : Idle /\ NotificationBegin(body)
    \/ \E rq \in Running : NotificationExtractRaise(rq)
    \/ \E rq \in Running, content \in ExtractionContents : NotificationExtractReturn(rq, content)
    \/ \E rq \in Running : NotificationSend(rq)
    \/ \E rq \in Running : NotificationSendRaise(rq)
    \/ \E body \in WebhookBodies : Idle /\ WebhookBegin(body)
    \/ \E rq \in Running : WebhookCategorizeRaise(rq)
    \/ \E rq \in Running, content \in CategoryContents, sheets_ok \in BOOLEAN :
           WebhookCategorizeReturn(rq, content, sheets_ok)
    \/ \E rq \in Running : WebhookAck(rq)
    \/ \E rq \in Running : WebhookAckRaise(rq)

SpecSeq == Init /\ [][NextSeq]_vars

----------------------------------------------------------------------------
(* extract_transaction_info on its own: lines 118-141 applied to a response *)

\* the responses: an opening, a body and a closing, put together
Openings == {"", "~~~json\n", "~~~json", "~~~json ", "~~~\n", "~~~", " ~~~json\n", "~~~JSON\n"}

Payloads ==
    {"", "none", "[]", "}{", "{\"is_credit_card\": false}", "{\"amount\": 7",
     "{\"is_credit_card\": true, \"amount\": 15, \"currency\": \"USD\", \"raw_description\": \"Uber\"}",
     "{\"is_credit_card\": false}\nIt is a transfer.", "amount\": 7}"}

Closings == {"", "\n~~~", "~~~", "\n~~~\n", "\n~~~ done"}

Responses == {Str(o \o p \o c) : o \in Openings, p \in Payloads, c \in Closings}

InitUnwrap ==
    /\ AtStart
    /\ response \in Responses
    /\ json_content = NoContent
    /\ parsed = NoContent

\* lines 119-133
UnwrapResponse ==
    /\ json_content = NoContent
    /\ json_content' = Str(Unwrap(Strip(response.str)))
    /\ UNCHANGED <<last_purchase, ledger, outbox, req, arrived, last, hist, response, parsed>>

\* lines 135-141
LoadPayload ==
    /\ json_content # NoContent /\ parsed = NoContent
    /\ parsed' = ExtractResult(response)
    /\ UNCHANGED <<last_purchase, ledger, outbox, req, arrived, last, hist, response, json_content>>

NextUnwrap == UnwrapResponse \/ LoadPayload

SpecUnwrap == InitUnwrap /\ [][NextUnwrap]_vars

----------------------------------------------------------------------------
(* Properties *)

\* the step that led to this state was the return of the extraction call in
\* a notification handler
ExtractionReturned(l) ==
    l.rq.kind = "notification" /\ l.was.pc = "extract" /\ l.content # NoContent

\* the step that led to this state was the return of the classification call
\* with a text, in a reply handler
ClassificationReturned(l) ==
    l.rq.kind = "webhook" /\ l.was.pc = "categorize" /\ "str" \in DOMAIN l.content

\* the extraction result says "not a credit-card transaction": a dict whose
\* is_credit_card is false or missing (a failed parse gives such a dict)
NotATransaction(txn_info) ==
    /\ "obj" \in DOMAIN txn_info
    /\ "is_credit_card" \in DOMAIN txn_info.obj => txn_info.obj["is_credit_card"] = [bool |-> FALSE]

C2_AlwaysReportsSuccess ==
    last.rq.pc = "done" => last.rq.result = "ok"

\* C3: a reply with a non-empty text that the classifier answered, while no
\* PendingTransaction was ever stored, ends in a defined outcome and not in an
\* exception that leaves the handler.
C3_ReplyWithoutPendingIsHandled ==
    (ClassificationReturned(last) /\ last_purchase = <<>> /\ hist = <<>>)
        => last.rq.result # "error"

\* the schema of the extraction prompt, lines 100-105
ConformsToSchema(v) ==
    /\ "obj" \in DOMAIN v
    /\ DOMAIN v.obj = {"is_credit_card", "amount", "currency", "raw_description"}
    /\ "bool" \in DOMAIN v.obj["is_credit_card"]
    /\ "num" \in DOMAIN v.obj["amount"]
    /\ "str" \in DOMAIN v.obj["currency"]
    /\ "str" \in DOMAIN v.obj["raw_description"]

\* C4: when the model's response is not valid JSON or does not conform to the
\* schema, extract_transaction_info returns a result equivalent to
\* {is_credit_card: false}, the handler stores no PendingTransaction and
\* answers {"ok": True}; the extraction call never ends the handler with an
\* exception.
C4_MalformedResponseIsNoOp ==
    /\ (ExtractionReturned(last) /\ ~ConformsToSchema(last.rq.txn_info))
           => /\ NotATransaction(last.rq.txn_info)
              /\ last.rq.wrote = <<>>
              /\ last.rq.result = "ok"
    /\ (last.rq.kind = "notification" /\ last.was.pc = "extract")
           => last.rq.result # "error"

\* C5: the category the classifier returns is a member of the 13 categories:
\* the trimmed answer when that is a member, "Other" when it is not; so the
\* category cell of every ledger row is a member.
C5_CategoryInClosedSet ==
    /\ Cardinality(categories) = 13
    /\ \A i \in 1..Len(ledger) : ledger[i][5].str \in categories
    /\ ClassificationReturned(last) =>
           /\ last.rq.category \in categories
           /\ Strip(last.content.str) \in categories => last.rq.category = Strip(last.content.str)
           /\ Strip(last.content.str) \notin categories => last.rq.category = "Other"

\* an answer outside the set was replaced by "Other" and went into the ledger
C5_Witness ==
    /\ ClassificationReturned(last)
    /\ last.content = Str("eating out")
    /\ Len(ledger) > 0 /\ ledger[Len(ledger)][5] = Str("Other")
    /\ last.rq.row = ledger[Len(ledger)]

\* the three cells a row takes from the stored transaction
PurchaseCells(p) == <<p["amount"], p["currency"], p["raw_description"]>>

\* the step that led to this state appended the reply's row to the ledger
RowAppended(l) ==
    l.rq.kind = "webhook" /\ l.was.pc = "categorize" /\ l.rq.row # <<>>

\* C6: when the requests are handled one at a time, a reply's row carries the
\* amount, currency and raw_description of the most recent qualifying
\* notification (B after A then B), never those of an earlier one.
C6_RowCarriesLatestNotification ==
    RowAppended(last) =>
        /\ hist # <<>>
        /\ SubSeq(last.rq.row, 1, 3) = PurchaseCells(hist[Len(hist)].obj)
        /\ ledger[Len(ledger)] = last.rq.row

\* A then a different B qualified, and the reply's row carries B's fields
C6_Witness ==
    /\ RowAppended(last)
    /\ Len(hist) = 2 /\ hist[1] # hist[2]
    /\ SubSeq(ledger[Len(ledger)], 1, 3) = PurchaseCells(hist[2].obj)
    /\ SubSeq(ledger[Len(ledger)], 1, 3) # PurchaseCells(hist[1].obj)

\* C7: no step of a reply handler changes last_purchase, and the row a reply
\* appends is built from the value stored at that step; so replies with no
\* notification between them are all merged against the same
\* PendingTransaction.
C7_ReplyLeavesStore ==
    [][ last'.rq.kind = "webhook"
        => /\ last_purchase' = last_purchase
           /\ ledger' # ledger =>
                  SubSeq(ledger'[Len(ledger')], 1, 3) = PurchaseCells(last_purchase') ]_vars

\* two replies were merged against the one stored transaction, which is
\* still stored after the second was acknowledged
C7_Witness ==
    /\ last.rq.kind = "webhook" /\ last.was.pc = "ack" /\ last.rq.result = "ok"
    /\ Len(hist) = 1 /\ Len(ledger) = 2
    /\ ledger[1][4] # ledger[2][4]
    /\ SubSeq(ledger[1], 1, 3) = PurchaseCells(last_purchase)
    /\ SubSeq(ledger[2], 1, 3) = PurchaseCells(last_purchase)

\* C8: when the send of the confirmation fails, the store still holds the
\* PendingTransaction built from that notification (no later notification
\* having written since), although the handler failed.
C8_SendFailureKeepsStore ==
    (last.rq.kind = "notification" /\ last.rq.exc = "HTTPError"
        /\ hist[Len(hist)] = last.rq.txn_info)
        => /\ last_purchase = last.rq.wrote
           /\ PurchaseCells(last_purchase) = PurchaseCells(last.rq.txn_info.obj)
           /\ DOMAIN last_purchase = {"amount", "currency", "raw_description"}

\* the send failed and no message was posted for the stored transaction
C8_Witness ==
    /\ last.rq.kind = "notification" /\ last.rq.exc = "HTTPError"
    /\ last.rq.result = "error"
    /\ last_purchase # <<>> /\ last_purchase = last.rq.wrote
    /\ outbox = EmptyBag

\* C9: a reply whose text is empty or absent is answered {"ok": True} at
\* once: the classifier is not called, last_purchase is not changed, no row
\* is appended and no message is sent.
C9_EmptyReplyIsNoOp ==
    [][ (last'.rq.kind = "webhook" /\ last'.was = NoRequest /\ last'.rq.text = Str(""))
        => /\ last'.rq.pc = "done" /\ last'.rq.result = "ok"
           /\ last'.rq.category = "" /\ last'.rq.row = <<>> /\ last'.rq.msg = <<>>
           /\ req' = req
           /\ last_purchase' = last_purchase
           /\ ledger' = ledger
           /\ outbox' = outbox ]_vars

\* an empty reply was answered while a transaction was pending
C9_Witness ==
    /\ last.rq.kind = "webhook" /\ last.was = NoRequest /\ last.rq.text = Str("")
    /\ last.rq.result = "ok"
    /\ last_purchase # <<>> /\ ledger = <<>>

\* C10: the ledger only grows, one row at a time; a row is appended by a reply
\* handler when its classification returns, and is [amount, currency,
\* raw_description of last_purchase as read then, the reply's text, the
\* category returned for it]; a reply that completes after classification has
\* appended exactly that one row.
C10_OneRowPerReply ==
    [][ /\ ledger' # ledger =>
               /\ last'.rq.kind = "webhook" /\ last'.was.pc = "categorize"
               /\ last'.was.row = <<>>
               /\ "str" \in DOMAIN last'.content
               /\ last'.rq.category =
                      (IF Strip(last'.content.str) \in categories
                          THEN Strip(last'.content.str) ELSE "Other")
               /\ ledger' = Append(ledger,
                      <<last_purchase["amount"], last_purchase["currency"],
                        last_purchase["raw_description"], last'.was.text,
                        Str(last'.rq.category)>>)
               /\ last'.rq.row = ledger'[Len(ledger')]
        /\ (last'.rq.kind = "webhook" /\ last'.was.pc = "categorize" /\ last'.rq.exc = "")
               => Len(ledger') = Len(ledger) + 1
        /\ (last'.rq.kind = "webhook" /\ last'.rq.result = "ok" /\ last'.rq.text # Str(""))
               => /\ last'.was.pc = "ack" /\ last'.was.row # <<>>
                  /\ \E i \in 1..Len(ledger) : ledger[i] = last'.was.row ]_vars

\* a reply completed after its row, the second of the ledger, was appended
C10_Witness ==
    /\ last.rq.kind = "webhook" /\ last.was.pc = "ack" /\ last.rq.result = "ok"
    /\ Len(ledger) = 2 /\ ledger[2] = last.rq.row
    /\ last.rq.row = <<last_purchase["amount"], last_purchase["currency"],
                       last_purchase["raw_description"], last.rq.text,
                       Str(last.rq.category)>>

\* C11: processing the same request a second time leaves the store and the
\* ledger as processing it once did.  For the store: when the same qualifying
\* extraction result is written twice in a row, last_purchase is what the
\* first write left.  For the ledger: with one PendingTransaction ever stored,
\* the ledger holds at most one row for a given reply text, however many
\* times that reply was processed.
C11_RetryIsIdempotent ==
    /\ (ExtractionReturned(last) /\ last.rq.wrote # <<>> /\ Len(hist) >= 2
            /\ hist[Len(hist)] = hist[Len(hist) - 1])
           => PurchaseCells(last_purchase) = PurchaseCells(hist[Len(hist) - 1].obj)
    /\ Len(hist) = 1 =>
           \A i, j \in 1..Len(ledger) :
               SubSeq(ledger[i], 1, 4) = SubSeq(ledger[j], 1, 4) => i = j

\* the requests in flight and the one that took the last step
Requests == Running \cup {last.rq}

\* what a handler has done when it stands at pc, in the order of its code
InOrder(r) ==
    /\ r.kind = "notification" =>
           /\ r.pc = "extract" => (r.txn_info = None /\ r.wrote = <<>> /\ r.msg = <<>>)
           /\ r.wrote # <<>> => r.txn_info # None
           /\ r.pc = "send" => (r.wrote # <<>> /\ r.msg = <<>>)
           /\ r.msg # <<>> => (r.wrote # <<>> /\ r.pc = "done")
           /\ (r.result = "ok" /\ r.wrote # <<>>) => r.msg # <<>>
    /\ r.kind = "webhook" =>
           /\ r.pc = "categorize" => (r.category = "" /\ r.row = <<>> /\ r.msg = <<>>)
           /\ r.row # <<>> => r.category # ""
           /\ r.pc = "ack" => (r.row # <<>> /\ r.msg = <<>>)
           /\ r.msg # <<>> => (r.row # <<>> /\ r.pc = "done")
           /\ (r.result = "ok" /\ r.text # Str("")) => r.msg # <<>>

\* C12: a handler goes through its steps in the order of the code and takes
\* no step before the one before it has finished, whatever the other
\* handlers do: notification: extraction, store write, confirmation message,
\* {"ok": True}; reply: classification, store read and ledger append,
\* acknowledgment message, {"ok": True}.
C12_StepsInOrder ==
    /\ \A r \in Requests : InOrder(r)
    /\ last.rq.kind = "notification" =>
           <<last.was.pc, last.rq.pc>> \in
               {<<"idle", "extract">>, <<"idle", "done">>, <<"extract", "send">>,
                <<"extract", "done">>, <<"send", "done">>}
    /\ last.rq.kind = "webhook" =>
           <<last.was.pc, last.rq.pc>> \in
               {<<"idle", "categorize">>, <<"idle", "done">>, <<"categorize", "ack">>,
                <<"categorize", "done">>, <<"ack", "done">>}
    /\ (last.rq.pc = "done" /\ last.rq.result = "ok" /\ last.rq.msg # <<>>)
           => last.was.pc \in {"send", "ack"}

\* a reply went through all its steps while a notification stood between
\* its store write and its message
C12_Witness ==
    /\ last.rq.kind = "webhook" /\ last.was.pc = "ack" /\ last.rq.result = "ok"
    /\ last.rq.row # <<>> /\ last.rq.msg # <<>>
    /\ \E r \in Running : r.kind = "notification" /\ r.pc = "send"

\* C13: last_purchase is read when the classification returns, not when the
\* reply arrives: a reply that arrived when the store held A and whose
\* classification returns after a qualifying notification B was written
\* appends a row with B's amount, currency and raw_description, not A's.
C13_MidFlightOverwrite ==
    (RowAppended(last) /\ last.was.seen < Len(hist))
        => /\ SubSeq(last.rq.row, 1, 3) = PurchaseCells(hist[Len(hist)].obj)
           /\ (last.was.seen > 0
                  /\ PurchaseCells(hist[last.was.seen].obj) # PurchaseCells(hist[Len(hist)].obj))
                  => SubSeq(last.rq.row, 1, 3) # PurchaseCells(hist[last.was.seen].obj)

\* the reply arrived when the store held A, B was written while the
\* classifier was called, and the row carries B
C13_Witness ==
    /\ RowAppended(last)
    /\ last.was.seen = 1 /\ Len(hist) = 2 /\ hist[1] # hist[2]
    /\ SubSeq(ledger[Len(ledger)], 1, 3) = PurchaseCells(hist[2].obj)
    /\ ledger[Len(ledger)][4] = last.was.text

\* C14: last_purchase is the initial {} or a dict of exactly amount, currency
\* and raw_description, the three of one extraction result (the last that
\* qualified); once written it is never {} again; a notification whose
\* qualifying result lacks a field ends with KeyError and has written
\* nothing.
C14_StoreShape ==
    /\ hist = <<>> <=> last_purchase = <<>>
    /\ hist # <<>> =>
           /\ DOMAIN last_purchase = {"amount", "currency", "raw_description"}
           /\ \A k \in DOMAIN last_purchase : last_purchase[k] = hist[Len(hist)].obj[k]
    /\ \A i \in 1..Len(hist) :
           {"amount", "currency", "raw_description"} \subseteq DOMAIN hist[i].obj
    /\ \A r \in Requests :
           (r.kind = "notification" /\ r.exc = "KeyError") => r.wrote = <<>>

\* a qualifying result without currency ended its handler with KeyError and
\* the store still holds the whole transaction written before
C14_Witness ==
    /\ last.rq.kind = "notification" /\ last.rq.exc = "KeyError"
    /\ "amount" \in DOMAIN last.rq.txn_info.obj
    /\ "currency" \notin DOMAIN last.rq.txn_info.obj
    /\ Len(hist) = 1
    /\ DOMAIN last_purchase = {"amount", "currency", "raw_description"}
    /\ last_purchase["amount"] # last.rq.txn_info.obj["amount"]

\* C15: under every interleaving, the amount, currency and raw_description
\* of a ledger row are the three of one PendingTransaction, the one written
\* by one notification: no row mixes the fields of two notifications.
C15_RowFromOneTransaction ==
    \A i \in 1..Len(ledger) :
        \E k \in 1..Len(hist) : SubSeq(ledger[i], 1, 3) = PurchaseCells(hist[k].obj)

\* a row was appended between the store write and the message of a second,
\* different notification, and its fields are all of that notification
C15_Witness ==
    /\ RowAppended(last)
    /\ Len(hist) = 2
    /\ \A k \in {"amount", "currency", "raw_description"} : hist[1].obj[k] # hist[2].obj[k]
    /\ \E r \in Running : r.kind = "notification" /\ r.pc = "send" /\ r.txn_info = hist[2]
    /\ SubSeq(last.rq.row, 1, 3) = PurchaseCells(hist[2].obj)

\* the acknowledgment messages posted so far
Acknowledgments ==
    LET acks == {m \in BagToSet(outbox) : StartsWith(m.text, "Got it.")}
    IN  [m \in acks |-> outbox[m]]

\* C16: the message "Got it. Categorized as: {category}" of a reply is posted
\* after the row of that reply was appended and names the category of that
\* row; a reply whose store read or ledger append failed posts no message.
C16_AckAfterAppend ==
    /\ \A r \in Requests :
           (r.kind = "webhook" /\ r.msg # <<>>)
               => /\ r.row # <<>>
                  /\ \E i \in 1..Len(ledger) : ledger[i] = r.row
                  /\ r.msg.text = "Got it. Categorized as: " \o r.row[5].str
    /\ \A r \in Requests :
           (r.kind = "webhook" /\ r.exc \in {"KeyError", "SheetsError"})
               => (r.row = <<>> /\ r.msg = <<>>)
    /\ BagCardinality(Acknowledgments) <= Len(ledger)

\* one reply was appended and acknowledged, the append of a second one
\* failed: one row, one acknowledgment
C16_Witness ==
    /\ last.rq.kind = "webhook" /\ last.rq.exc = "SheetsError"
    /\ last.rq.category # "" /\ last.rq.msg = <<>>
    /\ Len(ledger) = 1
    /\ BagCardinality(Acknowledgments) = 1
    /\ \E m \in DOMAIN Acknowledgments :
           m.text = "Got it. Categorized as: " \o ledger[1][5].str

\* the confirmation text for the fields of an extraction result
SpentText(txn_info) ==
    "You spent " \o PyStr(txn_info.obj["amount"]) \o " " \o txn_info.obj["currency"].str
        \o " at '" \o txn_info.obj["raw_description"].str \o "'. What was it?"

\* C17: with notifications handled concurrently, last_purchase holds the
\* transaction of the notification whose extraction returned last, whatever
\* the order in which the notifications arrived; the confirmation message of
\* each notification shows the fields of its own extraction result.
C17_LastExtractionWins ==
    /\ (ExtractionReturned(last) /\ last.rq.wrote # <<>>)
           => /\ last_purchase = last.rq.wrote
              /\ PurchaseCells(last_purchase) = PurchaseCells(last.rq.txn_info.obj)
    /\ (~(ExtractionReturned(last) /\ last.rq.wrote # <<>>) /\ hist # <<>>)
           => PurchaseCells(last_purchase) = PurchaseCells(hist[Len(hist)].obj)
    /\ \A r \in Requests :
           (r.kind = "notification" /\ r.msg # <<>>) => r.msg.text = SpentText(r.txn_info)

\* A arrived first, its extraction returned after B's: the store holds A and
\* B's message, already posted, shows B
C17_Witness ==
    /\ ExtractionReturned(last) /\ last.was.nth = 1 /\ last.rq.wrote # <<>>
    /\ Len(hist) = 2 /\ hist[2] = last.rq.txn_info
    /\ \A k \in {"amount", "currency", "raw_description"} : hist[1].obj[k] # hist[2].obj[k]
    /\ PurchaseCells(last_purchase) = PurchaseCells(last.rq.txn_info.obj)
    /\ \E m \in BagToSet(outbox) : m.text = SpentText(hist[1])

\* the chat id, as the handler holds it, of the sender of a reply text
SenderOf(text) ==
    IF text = Str("lunch with friends") THEN "42"
    ELSE IF text = Str("taxi") THEN "77"
    ELSE "None"

\* C18: with replies handled concurrently, the row of a reply pairs its own
\* text with the category returned for it, and its acknowledgment goes to
\* the chat id of its sender with that category; the confirmation of a
\* notification goes to CHAT_ID.  Nothing of one reply is crossed with
\* another's.
C18_RepliesNotCrossed ==
    /\ \A r \in Requests : r.kind = "webhook" =>
           /\ r.text # None => r.chat_id \in {SenderOf(r.text), "42"}
           /\ r.text \in {Str("lunch with friends"), Str("taxi")} => r.chat_id = SenderOf(r.text)
           /\ r.row # <<>> => (r.row[4] = r.text /\ r.row[5] = Str(r.category))
           /\ r.msg # <<>> =>
                  /\ r.msg.chat_id = r.chat_id
                  /\ r.msg.text = "Got it. Categorized as: " \o r.category
    /\ ClassificationReturned(last) =>
           /\ last.rq.text = last.was.text /\ last.rq.chat_id = last.was.chat_id
           /\ Strip(last.content.str) \in categories => last.rq.category = Strip(last.content.str)
    /\ \A r \in Requests :
           (r.kind = "notification" /\ r.msg # <<>>) => r.msg.chat_id = "1001"
    /\ \A m \in BagToSet(outbox) :
           IF StartsWith(m.text, "Got it.") THEN m.chat_id \in {"42", "77"}
           ELSE m.chat_id = "1001"

\* two replies of different senders were in flight together with different
\* categories; the acknowledgment of one went to its sender
C18_Witness ==
    /\ last.rq.kind = "webhook" /\ last.was.pc = "ack" /\ last.rq.result = "ok"
    /\ last.rq.text = Str("taxi") /\ last.rq.msg.chat_id = "77"
    /\ \E r \in Running :
           /\ r.kind = "webhook" /\ r.pc = "ack" /\ r.chat_id = "42"
           /\ r.category # last.rq.category
           /\ r.row[4] = Str("lunch with friends")
    /\ last.rq.msg.text = "Got it. Categorized as: " \o last.rq.row[5].str

\* the positions of character ch in c
Positions(c, ch) == {i \in 1..Len(c) : SubSeq(c, i, i) = ch}

Least(S) == CHOOSE i \in S : \A j \in S : i <= j

Greatest(S) == CHOOSE i \in S : \A j \in S : i >= j

Begins(c, p) == Len(c) >= Len(p) /\ SubSeq(c, 1, Len(p)) = p

Ends(c, p) == Len(c) >= Len(p) /\ SubSeq(c, Len(c) - Len(p) + 1, Len(c)) = p

\* the payload the three cases give for the trimmed response c
PayloadOf(c) ==
    IF Begins(c, "~~~json") /\ Ends(c, "~~~") THEN
        LET opens == Positions(c, "{")  closes == Positions(c, "}")
        IN  IF opens # {} /\ closes # {} /\ Least(opens) <= Greatest(closes)
            THEN SubSeq(c, Least(opens), Greatest(closes))
            ELSE ""
    ELSE IF Begins(c, "~~~") /\ Ends(c, "~~~") THEN
        LET newlines == Positions(c, "\n")
        IN  IF Cardinality(newlines) >= 2
            THEN SubSeq(c, Least(newlines) + 1, Greatest(newlines) - 1)
            ELSE ""
    ELSE c

\* C19: on the trimmed response: between a fence tagged json and a closing
\* fence, the payload is the substring from the first '{' through the last
\* '}'; else between two fences, it is the response without its first and
\* last line; else it is the whole trimmed response.  In the first case a
\* response without '{', in the second a response without an inner line,
\* gives the empty payload, and an empty payload gives
\* {"is_credit_card": False}.
C19_Unwrapping ==
    json_content # NoContent =>
        LET c == Strip(response.str) IN
        /\ json_content.str = PayloadOf(c)
        /\ (Begins(c, "~~~json") /\ Ends(c, "~~~") /\ Positions(c, "{") = {})
               => json_content.str = ""
        /\ (Begins(c, "~~~") /\ Ends(c, "~~~") /\ ~Begins(c, "~~~json")
                /\ Cardinality(Positions(c, "\n")) < 2)
               => json_content.str = ""
        /\ (parsed # NoContent /\ json_content.str = "")
               => parsed = [obj |-> [is_credit_card |-> [bool |-> FALSE]]]

\* a json-fenced response, trimmed, gave the object between its braces
C19_Witness ==
    /\ response = Str(" ~~~json\n{\"is_credit_card\": false}\nIt is a transfer.\n~~~\n")
    /\ json_content = Str("{\"is_credit_card\": false}")
    /\ parsed = [obj |-> [is_credit_card |-> [bool |-> FALSE]]]

====
